---- MODULE Spec2Model ----
(***************************************************************************)
(* The USB Session of src/index.js (USB, open, write, read, reset, close,  *)
(* destroy and the hot-plug handlers) as a state machine.  Every method    *)
(* and every completion delivered by the native transport is one atomic    *)
(* step: the program runs on one thread, so a handler runs to its end      *)
(* before the next one starts.  What the native transport does (a native   *)
(* call raising, a transfer failing, the moment a completion arrives) is   *)
(* chosen nondeterministically.                                            *)
(***************************************************************************)
EXTENDS Integers, Sequences, FiniteSets, Bags, TLC

\* ------------------------------------------------------------- bounds
\* open calls in progress at the same time: past the guards and the native
\* device.open, with ready notifications still to come
MaxOpenCalls == 2
\* IN transfers outstanding in the transport at the same time
MaxInTransfers == 2
\* OUT transfers outstanding in the transport at the same time
MaxOutTransfers == 1

\* ------------------------------------------------------------- devices
\* this.device = null
NoDevice == 0
\* the devices of the host that raise hot-plug events
Devices == {1, 2}
\* those with a printer-class interface: what USB.findPrinter() can return
Printers == {1}

\* The printers under test, each given by device.interfaces: the endpoint
\* directions of every interface, in descriptor order.  One interface with a
\* pair; an OUT-only and an IN-only interface; an IN-only interface before one
\* with a pair (IN listed first); two interfaces with a pair each.
Layouts ==
  { <<(<<"out", "in">>)>>,
    <<(<<"out">>), (<<"in">>)>>,
    <<(<<"in">>), (<<"in", "out">>)>>,
    <<(<<"out", "in">>), (<<"in", "out", "out">>)>> }

\* the payloads given to write(data, callback)
Payloads == {"a", "b"}

\* self.endpoint.timeout = 15000 ; self.deviceToPcEndpoint.timeout = 700
OutTimeout == 15000
InTimeout == 700

\* the positions of the interfaces in device.interfaces
IfaceIds == UNION {DOMAIN l : l \in Layouts}

\* this.endpoint = null
NoEndpoint == [dev |-> NoDevice, iface |-> 0, idx |-> 0, dir |-> "none", timeout |-> 0]

VARIABLES
  self,          \* the fields of the USB object
  layout,        \* the printer's interfaces (device.interfaces), fixed by the hardware
  calls,         \* the open calls in progress, a bag of closures: the device they
                 \* enumerated, their counter, the interfaces whose ready notification
                 \* is pending, and how many times their callback has run
  inTransfers,   \* IN transfers submitted by read and not yet completed
  outTransfers,  \* OUT transfers submitted by write and not yet completed
  resetPending,  \* a native device.reset was submitted and has not completed
  subscribed,    \* _onDetach/_onAttach are registered on the global usb emitter
  last           \* what the last step did: callbacks, native calls, events

vars == <<self, layout, calls, inTransfers, outTransfers, resetPending, subscribed, last>>

\* device.interfaces of a printer
InterfacesOf(d) == layout

\* the first endpoint of direction dir in an interface's endpoint list, 0 if none
FirstEp(eps, dir) ==
  IF \E k \in 1..Len(eps) : eps[k] = dir
  THEN CHOOSE k \in 1..Len(eps) : eps[k] = dir /\ \A j \in 1..(k - 1) : eps[j] # dir
  ELSE 0

\* the result of one handler: the object afterwards, the object at the moment
\* the callback ran, the callback results, the native calls and the events
Ret(s, at, cb, native, ev) ==
  [self |-> s, at |-> at, cb |-> cb, native |-> native, ev |-> ev]

\* the record of a step: the handler, the device of a hot-plug event (NoDevice
\* for the other handlers), the handler's result, and, when the step delivered
\* the last ready notification of an open call, how many times that call's
\* callback has run in all ("done"); for a write call, what it emitted and what
\* it handed to the transport, with the payloads, in program order ("steps")
Did(op, arg, r) ==
  [op |-> op, arg |-> arg, cb |-> r.cb, native |-> r.native, ev |-> r.ev, at |-> r.at,
   done |-> {}, steps |-> <<>>]

\* the bag of one open call
One(call) == SetToBag({call})

\* function USB(vid, pid): the fields after construction, bound to d or to nothing
NewSession(d) ==
  [device |-> d, endpoint |-> NoEndpoint, deviceToPcEndpoint |-> NoEndpoint,
   isOpen |-> FALSE, isClosing |-> FALSE, isResetting |-> FALSE, readInFlight |-> FALSE]

Init ==
  /\ self \in {NewSession(d) : d \in {NoDevice} \cup Printers}
  /\ layout \in Layouts
  /\ calls = EmptyBag
  /\ inTransfers = 0
  /\ outTransfers = 0
  /\ resetPending = FALSE
  /\ subscribed = TRUE
  /\ last = Did("new", NoDevice, Ret(self, self, <<>>, <<>>, <<>>))

\* ------------------------------------------------------------- open
\* USB.prototype.open up to the interface loop.  openThrows: device.open()
\* raises.  setAltThrows: the first setAltSetting raises synchronously, which
\* ends the forEach.  "entered": the loop ran, and "started" is the set of
\* interfaces whose ready notification is now pending.
open(s, openThrows, setAltThrows) ==
  IF s.isResetting THEN
    [r |-> Ret(s, s, <<"Busy">>, <<>>, <<>>), started |-> {}, entered |-> FALSE]
  ELSE IF s.device = NoDevice THEN
    [r |-> Ret(s, s, <<"NoDeviceBound">>, <<>>, <<>>), started |-> {}, entered |-> FALSE]
  ELSE IF s.isOpen THEN
    [r |-> Ret(s, s, <<"ok">>, <<>>, <<>>), started |-> {}, entered |-> FALSE]
  ELSE IF openThrows THEN
    [r |-> Ret(s, s, <<"TransportError">>, <<"open">>, <<>>), started |-> {}, entered |-> FALSE]
  ELSE IF setAltThrows THEN
    [r |-> Ret(s, s, <<"TransportError">>, <<"open", "setAltSetting">>, <<>>),
     started |-> {}, entered |-> FALSE]
  ELSE
    LET n == Len(InterfacesOf(s.device))
    IN  [r |-> Ret(s, s, <<>>, <<"open">> \o [j \in 1..n |-> "setAltSetting"], <<>>),
         started |-> 1..n, entered |-> TRUE]

Open(openThrows, setAltThrows) ==
  LET o == open(self, openThrows, setAltThrows) IN
  /\ o.entered => BagCardinality(calls) < MaxOpenCalls
  /\ self' = o.r.self
  /\ calls' = IF o.entered
              THEN calls (+) One([dev |-> self.device, counter |-> 0,
                                  pending |-> o.started, cbs |-> Len(o.r.cb)])
              ELSE calls
  /\ last' = Did("open", NoDevice, o.r)
  /\ UNCHANGED <<layout, inTransfers, outTransfers, resetPending, subscribed>>

\* The callback given to iface.setAltSetting, for interface i of the device the
\* open call enumerated (dev) with the call's counter.  claimThrows: the kernel
\* driver calls or iface.claim() raise.
ifaceReady(s, dev, i, counter, claimThrows) ==
  IF claimThrows THEN
    [r |-> Ret(s, s, <<"TransportError">>, <<"claim">>, <<>>), counter |-> counter]
  ELSE
    LET eps == InterfacesOf(dev)[i]
        outEp == FirstEp(eps, "out")
        inEp == FirstEp(eps, "in")
    IN  IF outEp # 0 /\ inEp # 0 /\ s.endpoint = NoEndpoint /\ s.deviceToPcEndpoint = NoEndpoint
        THEN LET s1 == [s EXCEPT
                         !.endpoint = [dev |-> dev, iface |-> i, idx |-> outEp,
                                       dir |-> "out", timeout |-> OutTimeout],
                         !.deviceToPcEndpoint = [dev |-> dev, iface |-> i, idx |-> inEp,
                                                 dir |-> "in", timeout |-> InTimeout],
                         !.isOpen = TRUE,
                         !.isClosing = FALSE]
             IN  [r |-> Ret(s1, s1, <<"ok">>, <<"claim">>, <<"connect">>), counter |-> counter]
        ELSE IF s.device = NoDevice
        \* ++counter, then self.device.interfaces raises a TypeError, which is caught
        THEN [r |-> Ret(s, s, <<"TransportError">>, <<"claim">>, <<>>), counter |-> counter + 1]
        ELSE IF counter + 1 = Len(InterfacesOf(s.device)) /\ s.endpoint = NoEndpoint
        THEN [r |-> Ret(s, s, <<"EndpointPairNotFound">>, <<"claim">>, <<>>),
              counter |-> counter + 1]
        ELSE [r |-> Ret(s, s, <<>>, <<"claim">>, <<>>), counter |-> counter + 1]

IfaceReady(i, claimThrows) ==
  /\ \E call \in BagToSet(calls) :
     /\ i \in call.pending
     /\ LET o == ifaceReady(self, call.dev, i, call.counter, claimThrows) IN
        /\ self' = o.r.self
        /\ calls' = IF call.pending = {i}
                    THEN calls (-) One(call)
                    ELSE (calls (-) One(call))
                           (+) One([call EXCEPT !.counter = o.counter,
                                                !.pending = @ \ {i},
                                                !.cbs = @ + Len(o.r.cb)])
        /\ last' = [Did("ifaceReady", NoDevice, o.r) EXCEPT
                      !.done = IF call.pending = {i}
                               THEN {call.cbs + Len(o.r.cb)} ELSE {}]
  /\ UNCHANGED <<layout, inTransfers, outTransfers, resetPending, subscribed>>

\* ------------------------------------------------------------- write
\* write whose guard tests the closing flag only: a reset does not block it
writeIgnoresReset(s, data, xferThrows) ==
  LET steps == <<[kind |-> "emit", what |-> "data", data |-> data],
                 [kind |-> "native", what |-> "transferOut", data |-> data]>> IN
  IF s.isClosing THEN
    [r |-> Ret(s, s, <<"Busy">>, <<>>, <<>>), submitted |-> FALSE, steps |-> <<>>]
  ELSE IF s.endpoint = NoEndpoint THEN
    [r |-> Ret(s, s, <<"NotReady">>, <<>>, <<>>), submitted |-> FALSE, steps |-> <<>>]
  ELSE IF xferThrows THEN
    [r |-> Ret(s, s, <<"TransportError">>, <<"transferOut">>, <<"data">>),
     submitted |-> FALSE, steps |-> steps]
  ELSE
    [r |-> Ret(s, s, <<>>, <<"transferOut">>, <<"data">>), submitted |-> TRUE, steps |-> steps]

\* write that hands the payload to the transport before it emits data
writeTransfersFirst(s, data, xferThrows) ==
  LET steps == <<[kind |-> "native", what |-> "transferOut", data |-> data],
                 [kind |-> "emit", what |-> "data", data |-> data]>> IN
  IF s.isResetting \/ s.isClosing THEN
    [r |-> Ret(s, s, <<"Busy">>, <<>>, <<>>), submitted |-> FALSE, steps |-> <<>>]
  ELSE IF s.endpoint = NoEndpoint THEN
    [r |-> Ret(s, s, <<"NotReady">>, <<>>, <<>>), submitted |-> FALSE, steps |-> <<>>]
  ELSE IF xferThrows THEN
    [r |-> Ret(s, s, <<"TransportError">>, <<"transferOut">>, <<"data">>),
     submitted |-> FALSE, steps |-> steps]
  ELSE
    [r |-> Ret(s, s, <<>>, <<"transferOut">>, <<"data">>), submitted |-> TRUE, steps |-> steps]

\* USB.prototype.write.  xferThrows: endpoint.transfer raises synchronously.
\* "submitted": an OUT transfer is now outstanding.  "steps": this.emit('data',
\* data), then this.endpoint.transfer(data, ...).
write(s, data, xferThrows) ==
  LET steps == <<[kind |-> "emit", what |-> "data", data |-> data],
                 [kind |-> "native", what |-> "transferOut", data |-> data]>> IN
  IF s.isResetting \/ s.isClosing THEN
    [r |-> Ret(s, s, <<"Busy">>, <<>>, <<>>), submitted |-> FALSE, steps |-> <<>>]
  ELSE IF s.endpoint = NoEndpoint THEN
    [r |-> Ret(s, s, <<"NotReady">>, <<>>, <<>>), submitted |-> FALSE, steps |-> <<>>]
  ELSE IF xferThrows THEN
    [r |-> Ret(s, s, <<"TransportError">>, <<"transferOut">>, <<"data">>),
     submitted |-> FALSE, steps |-> steps]
  ELSE
    [r |-> Ret(s, s, <<>>, <<"transferOut">>, <<"data">>), submitted |-> TRUE, steps |-> steps]

Write(data, xferThrows) ==
  LET o == write(self, data, xferThrows) IN
  /\ o.submitted => outTransfers < MaxOutTransfers
  /\ self' = o.r.self
  /\ outTransfers' = IF o.submitted THEN outTransfers + 1 ELSE outTransfers
  /\ last' = [Did("write", NoDevice, o.r) EXCEPT !.steps = o.steps]
  /\ UNCHANGED <<layout, calls, inTransfers, resetPending, subscribed>>

\* the callback given to endpoint.transfer by write
writeDone(s, err) ==
  IF err THEN Ret(s, s, <<"TransportError">>, <<>>, <<"error">>)
  ELSE Ret(s, s, <<"ok">>, <<>>, <<>>)

WriteDone(err) ==
  /\ outTransfers > 0
  /\ LET r == writeDone(self, err) IN
     /\ self' = r.self
     /\ last' = Did("writeDone", NoDevice, r)
  /\ outTransfers' = outTransfers - 1
  /\ UNCHANGED <<layout, calls, inTransfers, resetPending, subscribed>>

\* ------------------------------------------------------------- read
\* read without the in-flight guard: overlapping reads are submitted
readUnguarded(s, xferThrows) ==
  IF s.isResetting \/ s.isClosing THEN
    [r |-> Ret(s, s, <<"Busy">>, <<>>, <<>>), submitted |-> FALSE]
  ELSE IF s.deviceToPcEndpoint = NoEndpoint THEN
    [r |-> Ret(s, s, <<"empty">>, <<>>, <<>>), submitted |-> FALSE]
  ELSE
    LET s1 == [s EXCEPT !.readInFlight = TRUE]
    IN  [r |-> Ret(s1, s1, <<>>, <<"transferIn">>, <<>>), submitted |-> TRUE]

\* USB.prototype.read.  "empty" is callback(null, Buffer.alloc(0)).
read(s, xferThrows) ==
  IF s.isResetting \/ s.isClosing THEN
    [r |-> Ret(s, s, <<"Busy">>, <<>>, <<>>), submitted |-> FALSE]
  ELSE IF s.deviceToPcEndpoint = NoEndpoint THEN
    [r |-> Ret(s, s, <<"empty">>, <<>>, <<>>), submitted |-> FALSE]
  ELSE IF s.readInFlight THEN
    [r |-> Ret(s, s, <<"ReadInProgress">>, <<>>, <<>>), submitted |-> FALSE]
  ELSE IF xferThrows THEN
    LET s1 == [s EXCEPT !.readInFlight = FALSE]
    IN  [r |-> Ret(s1, s1, <<"TransportError">>, <<"transferIn">>, <<>>), submitted |-> FALSE]
  ELSE
    LET s1 == [s EXCEPT !.readInFlight = TRUE]
    IN  [r |-> Ret(s1, s1, <<>>, <<"transferIn">>, <<>>), submitted |-> TRUE]

Read(xferThrows) ==
  LET o == read(self, xferThrows) IN
  /\ o.submitted => inTransfers < MaxInTransfers
  /\ self' = o.r.self
  /\ inTransfers' = IF o.submitted THEN inTransfers + 1 ELSE inTransfers
  /\ last' = Did("read", NoDevice, o.r)
  /\ UNCHANGED <<layout, calls, outTransfers, resetPending, subscribed>>

\* a completion that clears the in-flight flag on success only
readDoneKeepsFlagOnError(s, err) ==
  IF err THEN Ret(s, s, <<"TransportError">>, <<>>, <<>>)
  ELSE LET s1 == [s EXCEPT !.readInFlight = FALSE]
       IN  Ret(s1, s1, <<"data">>, <<>>, <<>>)

\* the callback given to deviceToPcEndpoint.transfer by read
readDone(s, err) ==
  LET s1 == [s EXCEPT !.readInFlight = FALSE]
  IN  Ret(s1, s1, IF err THEN <<"TransportError">> ELSE <<"data">>, <<>>, <<>>)

ReadDone(err) ==
  /\ inTransfers > 0
  /\ LET r == readDone(self, err) IN
     /\ self' = r.self
     /\ last' = Did("readDone", NoDevice, r)
  /\ inTransfers' = inTransfers - 1
  /\ UNCHANGED <<layout, calls, outTransfers, resetPending, subscribed>>

\* ------------------------------------------------------------- reset
\* reset without the already-resetting guard: every call reaches device.reset
resetAgain(s, resetThrows) ==
  IF s.device = NoDevice THEN
    [r |-> Ret(s, s, <<"NoDeviceBound">>, <<>>, <<>>), submitted |-> FALSE]
  ELSE IF resetThrows THEN
    LET s1 == [s EXCEPT !.isResetting = FALSE, !.readInFlight = FALSE]
    IN  [r |-> Ret(s1, s1, <<"TransportError">>, <<"reset">>, <<>>), submitted |-> FALSE]
  ELSE
    LET s1 == [s EXCEPT !.isResetting = TRUE]
    IN  [r |-> Ret(s1, s1, <<>>, <<"reset">>, <<>>), submitted |-> TRUE]

\* USB.prototype.reset.  resetThrows: device.reset raises synchronously.
reset(s, resetThrows) ==
  IF s.device = NoDevice THEN
    [r |-> Ret(s, s, <<"NoDeviceBound">>, <<>>, <<>>), submitted |-> FALSE]
  ELSE IF s.isResetting THEN
    [r |-> Ret(s, s, <<"ok">>, <<>>, <<>>), submitted |-> FALSE]
  ELSE IF resetThrows THEN
    LET s1 == [s EXCEPT !.isResetting = FALSE, !.readInFlight = FALSE]
    IN  [r |-> Ret(s1, s1, <<"TransportError">>, <<"reset">>, <<>>), submitted |-> FALSE]
  ELSE
    LET s1 == [s EXCEPT !.isResetting = TRUE]
    IN  [r |-> Ret(s1, s1, <<>>, <<"reset">>, <<>>), submitted |-> TRUE]

Reset(resetThrows) ==
  LET o == reset(self, resetThrows) IN
  /\ self' = o.r.self
  /\ resetPending' = (resetPending \/ o.submitted)
  /\ last' = Did("reset", NoDevice, o.r)
  /\ UNCHANGED <<layout, calls, inTransfers, outTransfers, subscribed>>

\* a reset completion that invokes the callback first and clears the state after
resetDoneCallbackFirst(s, err) ==
  LET s1 == [s EXCEPT !.isResetting = FALSE, !.readInFlight = FALSE, !.isOpen = FALSE,
                      !.endpoint = NoEndpoint, !.deviceToPcEndpoint = NoEndpoint]
  IN  Ret(s1, s, IF err THEN <<"TransportError">> ELSE <<"ok">>, <<>>, <<>>)

\* the callback given to device.reset
resetDone(s, err) ==
  LET s1 == [s EXCEPT !.isResetting = FALSE, !.readInFlight = FALSE, !.isOpen = FALSE,
                      !.endpoint = NoEndpoint, !.deviceToPcEndpoint = NoEndpoint]
  IN  Ret(s1, s1, IF err THEN <<"TransportError">> ELSE <<"ok">>, <<>>, <<>>)

ResetDone(err) ==
  /\ resetPending
  /\ LET r == resetDone(self, err) IN
     /\ self' = r.self
     /\ last' = Did("resetDone", NoDevice, r)
  /\ resetPending' = FALSE
  /\ UNCHANGED <<layout, calls, inTransfers, outTransfers, subscribed>>

\* ------------------------------------------------------------- close
\* USB.prototype.close, one call.  A device.close() that raises is swallowed.
close(s) ==
  IF s.isClosing THEN Ret(s, s, <<"ok">>, <<>>, <<>>)
  ELSE IF s.device = NoDevice \/ ~s.isOpen THEN
    LET s1 == [s EXCEPT !.isOpen = FALSE, !.endpoint = NoEndpoint,
                        !.deviceToPcEndpoint = NoEndpoint, !.isClosing = FALSE]
    IN  Ret(s1, s1, <<"ok">>, <<>>, <<>>)
  ELSE
    LET s1 == [s EXCEPT !.isOpen = FALSE, !.readInFlight = FALSE, !.endpoint = NoEndpoint,
                        !.deviceToPcEndpoint = NoEndpoint, !.isClosing = FALSE]
    IN  Ret(s1, s1, <<"ok">>, <<"close">>, <<"close">>)

\* A close call, with a second close issued from inside it: from its callback
\* ("callback": at the state the callback sees), from a close listener
\* ("listener": at the state the emit sees), or not at all ("none").  Nothing in
\* close writes a field after the callback, so the nested call's result stands.
closeReentrant(s, reenter) ==
  LET r1 == close(s)
      nested == reenter = "callback" \/ (reenter = "listener" /\ r1.ev # <<>>)
      r2 == close(IF reenter = "callback" THEN r1.at ELSE r1.self)
  IN  IF ~nested THEN r1
      ELSE IF reenter = "callback"
      THEN Ret(r2.self, r1.at, r1.cb \o r2.cb, r1.native \o r2.native, r2.ev \o r1.ev)
      ELSE Ret(r2.self, r1.at, r1.cb \o r2.cb, r1.native \o r2.native, r1.ev \o r2.ev)

Close(reenter) ==
  LET r == closeReentrant(self, reenter) IN
  /\ reenter = "listener" => close(self).ev # <<>>
  /\ self' = r.self
  /\ last' = Did(IF reenter = "none" THEN "close" ELSE "close2", NoDevice, r)
  /\ UNCHANGED <<layout, calls, inTransfers, outTransfers, resetPending, subscribed>>

\* ------------------------------------------------------------- destroy
\* USB.prototype.destroy: the listeners are removed if the object still holds
\* them (handlers), close(() => {}) runs, and the references are cleared.
destroy(s, handlers) ==
  LET r == close(s)
      s1 == [r.self EXCEPT !.device = NoDevice, !.endpoint = NoEndpoint,
                           !.deviceToPcEndpoint = NoEndpoint]
  IN  Ret(s1, r.at, <<>>,
          (IF handlers THEN <<"removeListener", "removeListener">> ELSE <<>>) \o r.native,
          r.ev)

Destroy ==
  LET r == destroy(self, subscribed) IN
  /\ self' = r.self
  /\ subscribed' = FALSE
  /\ last' = Did("destroy", NoDevice, r)
  /\ UNCHANGED <<layout, calls, inTransfers, outTransfers, resetPending>>

\* ------------------------------------------------------------- hot-plug
\* _onDetach that forgets the IN endpoint
onDetachKeepsIn(s, d) ==
  IF d = s.device THEN
    LET s1 == [s EXCEPT !.isOpen = FALSE, !.endpoint = NoEndpoint]
    IN  Ret([s1 EXCEPT !.device = NoDevice], s1, <<>>, <<>>, <<"detach", "disconnect">>)
  ELSE Ret(s, s, <<>>, <<>>, <<>>)

\* _onDetach without the identity test: any device's detach closes the Session
onDetachAny(s, d) ==
  LET s1 == [s EXCEPT !.isOpen = FALSE, !.endpoint = NoEndpoint,
                      !.deviceToPcEndpoint = NoEndpoint]
  IN  Ret([s1 EXCEPT !.device = NoDevice], s1, <<>>, <<>>, <<"detach", "disconnect">>)

\* this._onDetach, for a detach event of device d.  "at" is the object when the
\* two events are emitted: the device reference is cleared after them.
onDetach(s, d) ==
  IF d = s.device THEN
    LET s1 == [s EXCEPT !.isOpen = FALSE, !.endpoint = NoEndpoint,
                        !.deviceToPcEndpoint = NoEndpoint]
    IN  Ret([s1 EXCEPT !.device = NoDevice], s1, <<>>, <<>>, <<"detach", "disconnect">>)
  ELSE Ret(s, s, <<>>, <<>>, <<>>)

Detach(d) ==
  /\ subscribed
  /\ LET r == onDetach(self, d) IN
     /\ self' = r.self
     /\ last' = Did("detach", d, r)
  /\ UNCHANGED <<layout, calls, inTransfers, outTransfers, resetPending, subscribed>>

\* _onAttach without the identity test: any device's attach is announced
onAttachAny(s, d, found) ==
  LET s1 == IF s.device = NoDevice /\ found # NoDevice THEN [s EXCEPT !.device = found] ELSE s
  IN  Ret(s1, s1, <<>>, <<>>, <<"attach">>)

\* this._onAttach, for an attach event of device d.  found: the first device of
\* USB.findPrinter() at that moment, NoDevice when the list is empty.
onAttach(s, d, found) ==
  LET s1 == IF s.device = NoDevice /\ found # NoDevice THEN [s EXCEPT !.device = found] ELSE s
  IN  Ret(s1, s1, <<>>, <<>>, IF d = s1.device THEN <<"attach">> ELSE <<>>)

Attach(d, found) ==
  /\ subscribed
  /\ LET r == onAttach(self, d, found) IN
     /\ self' = r.self
     /\ last' = Did("attach", d, r)
  /\ UNCHANGED <<layout, calls, inTransfers, outTransfers, resetPending, subscribed>>

Next ==
  \/ \E openThrows \in BOOLEAN, setAltThrows \in BOOLEAN : Open(openThrows, setAltThrows)
  \/ \E i \in IfaceIds, claimThrows \in BOOLEAN : IfaceReady(i, claimThrows)
  \/ \E data \in Payloads, xferThrows \in BOOLEAN : Write(data, xferThrows)
  \/ \E err \in BOOLEAN : WriteDone(err)
  \/ \E xferThrows \in BOOLEAN : Read(xferThrows)
  \/ \E err \in BOOLEAN : ReadDone(err)
  \/ \E resetThrows \in BOOLEAN : Reset(resetThrows)
  \/ \E err \in BOOLEAN : ResetDone(err)
  \/ \E reenter \in {"none", "callback", "listener"} : Close(reenter)
  \/ Destroy
  \/ \E d \in Devices : Detach(d)
  \/ \E d \in Devices, found \in {NoDevice} \cup Printers : Attach(d, found)

Spec == Init /\ [][Next]_vars

\* ------------------------------------------------------------- the earlier revision
\* The repository's second source file (src/unnamed/part_000) is an earlier
\* revision of the same Session: no reset, no destroy, no in-flight flag, and
\* its own open, write, read and close.  Its hot-plug handlers are the same
\* code as _onDetach and _onAttach, registered for good.

\* USB.prototype.open of the earlier revision, up to the interface loop
openLegacy(s, openThrows, setAltThrows) ==
  IF s.device = NoDevice THEN
    [r |-> Ret(s, s, <<"NoDeviceBound">>, <<>>, <<>>), started |-> {}, entered |-> FALSE]
  ELSE IF s.isOpen THEN
    [r |-> Ret(s, s, <<"ok">>, <<>>, <<>>), started |-> {}, entered |-> FALSE]
  ELSE IF openThrows THEN
    [r |-> Ret(s, s, <<"TransportError">>, <<"open">>, <<>>), started |-> {}, entered |-> FALSE]
  ELSE IF setAltThrows THEN
    [r |-> Ret(s, s, <<"TransportError">>, <<"open", "setAltSetting">>, <<>>),
     started |-> {}, entered |-> FALSE]
  ELSE
    LET n == Len(InterfacesOf(s.device))
    IN  [r |-> Ret(s, s, <<>>, <<"open">> \o [j \in 1..n |-> "setAltSetting"], <<>>),
         started |-> 1..n, entered |-> TRUE]

OpenLegacy(openThrows, setAltThrows) ==
  LET o == openLegacy(self, openThrows, setAltThrows) IN
  /\ o.entered => BagCardinality(calls) < MaxOpenCalls
  /\ self' = o.r.self
  /\ calls' = IF o.entered
              THEN calls (+) One([dev |-> self.device, counter |-> 0,
                                  pending |-> o.started, cbs |-> Len(o.r.cb)])
              ELSE calls
  /\ last' = Did("open", NoDevice, o.r)
  /\ UNCHANGED <<layout, inTransfers, outTransfers, resetPending, subscribed>>

\* The setAltSetting callback of the earlier revision: each direction is
\* recorded on its own, from whichever interface offers it first, and the
\* Session is marked open as soon as an OUT endpoint is recorded.
ifaceReadyLegacy(s, dev, i, counter, claimThrows) ==
  IF claimThrows THEN
    [r |-> Ret(s, s, <<"TransportError">>, <<"claim">>, <<>>), counter |-> counter]
  ELSE
    LET eps == InterfacesOf(dev)[i]
        outEp == FirstEp(eps, "out")
        inEp == FirstEp(eps, "in")
        s1 == [s EXCEPT
                !.endpoint =
                  IF outEp # 0 /\ s.endpoint = NoEndpoint
                  THEN [dev |-> dev, iface |-> i, idx |-> outEp, dir |-> "out", timeout |-> 0]
                  ELSE @,
                !.deviceToPcEndpoint =
                  IF inEp # 0 /\ s.deviceToPcEndpoint = NoEndpoint
                  THEN [dev |-> dev, iface |-> i, idx |-> inEp, dir |-> "in", timeout |-> 0]
                  ELSE @]
    IN  IF s1.endpoint # NoEndpoint
        THEN LET s2 == [s1 EXCEPT !.isOpen = TRUE, !.isClosing = FALSE]
             IN  [r |-> Ret(s2, s2, <<"ok">>, <<"claim">>, <<"connect">>), counter |-> counter]
        ELSE IF s1.device = NoDevice
        THEN [r |-> Ret(s1, s1, <<"TransportError">>, <<"claim">>, <<>>), counter |-> counter + 1]
        ELSE IF counter + 1 = Len(InterfacesOf(s1.device))
        THEN [r |-> Ret(s1, s1, <<"EndpointPairNotFound">>, <<"claim">>, <<>>),
              counter |-> counter + 1]
        ELSE [r |-> Ret(s1, s1, <<>>, <<"claim">>, <<>>), counter |-> counter + 1]

IfaceReadyLegacy(i, claimThrows) ==
  /\ \E call \in BagToSet(calls) :
     /\ i \in call.pending
     /\ LET o == ifaceReadyLegacy(self, call.dev, i, call.counter, claimThrows) IN
        /\ self' = o.r.self
        /\ calls' = IF call.pending = {i}
                    THEN calls (-) One(call)
                    ELSE (calls (-) One(call))
                           (+) One([call EXCEPT !.counter = o.counter,
                                                !.pending = @ \ {i},
                                                !.cbs = @ + Len(o.r.cb)])
        /\ last' = [Did("ifaceReady", NoDevice, o.r) EXCEPT
                      !.done = IF call.pending = {i}
                               THEN {call.cbs + Len(o.r.cb)} ELSE {}]
  /\ UNCHANGED <<layout, inTransfers, outTransfers, resetPending, subscribed>>

\* USB.prototype.write of the earlier revision: the caller's callback is the
\* transfer's callback
writeLegacy(s, xferThrows) ==
  IF s.endpoint = NoEndpoint THEN
    [r |-> Ret(s, s, <<"NotReady">>, <<>>, <<>>), submitted |-> FALSE]
  ELSE IF xferThrows THEN
    [r |-> Ret(s, s, <<"TransportError">>, <<"transferOut">>, <<"data">>), submitted |-> FALSE]
  ELSE
    [r |-> Ret(s, s, <<>>, <<"transferOut">>, <<"data">>), submitted |-> TRUE]

WriteLegacy(xferThrows) ==
  LET o == writeLegacy(self, xferThrows) IN
  /\ o.submitted => outTransfers < MaxOutTransfers
  /\ self' = o.r.self
  /\ outTransfers' = IF o.submitted THEN outTransfers + 1 ELSE outTransfers
  /\ last' = Did("write", NoDevice, o.r)
  /\ UNCHANGED <<layout, calls, inTransfers, resetPending, subscribed>>

WriteDoneLegacy(err) ==
  /\ outTransfers > 0
  /\ self' = self
  /\ last' = Did("writeDone", NoDevice,
                 Ret(self, self, IF err THEN <<"TransportError">> ELSE <<"ok">>, <<>>, <<>>))
  /\ outTransfers' = outTransfers - 1
  /\ UNCHANGED <<layout, calls, inTransfers, resetPending, subscribed>>

\* USB.prototype.read of the earlier revision: no in-flight guard, and the
\* callback gets the data or an empty buffer, never an error
readLegacy(s, xferThrows) ==
  IF s.deviceToPcEndpoint = NoEndpoint THEN
    [r |-> Ret(s, s, <<"empty">>, <<>>, <<>>), submitted |-> FALSE]
  ELSE IF xferThrows THEN
    [r |-> Ret(s, s, <<"empty">>, <<"transferIn">>, <<>>), submitted |-> FALSE]
  ELSE
    [r |-> Ret(s, s, <<>>, <<"transferIn">>, <<>>), submitted |-> TRUE]

ReadLegacy(xferThrows) ==
  LET o == readLegacy(self, xferThrows) IN
  /\ o.submitted => inTransfers < MaxInTransfers
  /\ self' = o.r.self
  /\ inTransfers' = IF o.submitted THEN inTransfers + 1 ELSE inTransfers
  /\ last' = Did("read", NoDevice, o.r)
  /\ UNCHANGED <<layout, calls, outTransfers, resetPending, subscribed>>

ReadDoneLegacy(err) ==
  /\ inTransfers > 0
  /\ self' = self
  /\ last' = Did("readDone", NoDevice,
                 Ret(self, self, IF err THEN <<"empty">> ELSE <<"data">>, <<>>, <<>>))
  /\ inTransfers' = inTransfers - 1
  /\ UNCHANGED <<layout, calls, outTransfers, resetPending, subscribed>>

\* USB.prototype.close of the earlier revision: _isClosing is set and never
\* cleared here (only a later successful open clears it)
closeLegacy(s) ==
  IF s.isClosing THEN Ret(s, s, <<"ok">>, <<>>, <<>>)
  ELSE IF s.device = NoDevice \/ ~s.isOpen THEN
    LET s1 == [s EXCEPT !.isClosing = TRUE, !.isOpen = FALSE, !.endpoint = NoEndpoint,
                        !.deviceToPcEndpoint = NoEndpoint]
    IN  Ret(s1, s1, <<"ok">>, <<>>, <<>>)
  ELSE
    LET s1 == [s EXCEPT !.isClosing = TRUE, !.isOpen = FALSE, !.endpoint = NoEndpoint,
                        !.deviceToPcEndpoint = NoEndpoint]
    IN  Ret(s1, s1, <<"ok">>, <<"close">>, <<"close">>)

CloseLegacy ==
  LET r == closeLegacy(self) IN
  /\ self' = r.self
  /\ last' = Did("close", NoDevice, r)
  /\ UNCHANGED <<layout, calls, inTransfers, outTransfers, resetPending, subscribed>>

NextLegacy ==
  \/ \E openThrows \in BOOLEAN, setAltThrows \in BOOLEAN : OpenLegacy(openThrows, setAltThrows)
  \/ \E i \in IfaceIds, claimThrows \in BOOLEAN : IfaceReadyLegacy(i, claimThrows)
  \/ \E xferThrows \in BOOLEAN : WriteLegacy(xferThrows)
  \/ \E err \in BOOLEAN : WriteDoneLegacy(err)
  \/ \E xferThrows \in BOOLEAN : ReadLegacy(xferThrows)
  \/ \E err \in BOOLEAN : ReadDoneLegacy(err)
  \/ CloseLegacy
  \/ \E d \in Devices : Detach(d)
  \/ \E d \in Devices, found \in {NoDevice} \cup Printers : Attach(d, found)

SpecLegacy == Init /\ [][NextLegacy]_vars

\* ------------------------------------------------------------- claims
\* Closed: not marked open and no endpoint recorded
Closed(s) ==
  ~s.isOpen /\ s.endpoint = NoEndpoint /\ s.deviceToPcEndpoint = NoEndpoint

\* how many times x occurs in the sequence q
Count(q, x) == Cardinality({k \in 1..Len(q) : q[k] = x})

\* the results with which an open call's callback reports a failure
OpenFailures == {"NoDeviceBound", "TransportError", "EndpointPairNotFound"}

\* C1 (as claimed): in every state where the Session (not destroyed) is Open
\* and no reset is in progress, an open call leaves the Session as it is (Open,
\* same endpoint pair), its callback is invoked once with success, and it makes
\* no native call and emits no notification.
C1_OpenWhileOpen ==
  [][(last'.op = "open" /\ subscribed /\ self.isOpen /\ ~self.isResetting)
       => /\ self' = self
          /\ last'.cb = <<"ok">>
          /\ last'.native = <<>>
          /\ last'.ev = <<>>]_vars

\* C2 (as claimed): two close calls on an Open Session (not destroyed) with no open call
\* between them, the second issued from the first one's callback or close
\* listener, invoke the native device.close exactly once and both callbacks
\* are invoked with no error; and a close call that directly follows a close
\* call that closed the device natively makes no native call.
C2_CloseIdempotent ==
  /\ [][(last'.op = "close2" /\ subscribed /\ self.isOpen)
          => /\ Count(last'.native, "close") = 1
             /\ last'.cb = <<"ok", "ok">>]_vars
  /\ [][(last.op = "close" /\ last.native = <<"close">> /\ last'.op \in {"close", "close2"})
          => /\ last'.native = <<>>
             /\ \A k \in 1..Len(last'.cb) : last'.cb[k] = "ok"]_vars

C4_ResetLeavesClosed ==
  (\/ last.op = "resetDone"
   \/ (last.op = "reset" /\ last.native = <<"reset">> /\ last.cb # <<>>))
    => /\ ~self.isResetting
       /\ ~self.readInFlight
       /\ Closed(self)

\* C5: a detach event for the bound device, in any Session state, makes the
\* Session Closed, emits detach and then disconnect, once each, while the
\* device is still referenced, and then clears the device reference; a detach
\* event for the same device that directly follows emits nothing.
C5_DetachBound ==
  /\ [][(last'.op = "detach" /\ last'.arg = self.device)
          => /\ Closed(self')
             /\ last'.ev = <<"detach", "disconnect">>
             /\ last'.at.device = self.device /\ Closed(last'.at)
             /\ self'.device = NoDevice
             /\ self' = [last'.at EXCEPT !.device = NoDevice]]_vars
  /\ [][(last.op = "detach" /\ last.ev # <<>> /\ last'.op = "detach" /\ last'.arg = last.arg)
          => last'.ev = <<>> /\ self' = self]_vars

\* C5 witness: the bound device was detached while the Session was Open with a
\* read in flight (detach leaves the in-flight flag as it was)
C5_Witness ==
  /\ last.op = "detach" /\ last.ev = <<"detach", "disconnect">>
  /\ self.readInFlight /\ self.device = NoDevice /\ Closed(self)

\* C6: a detach event whose device is not the bound device, also when no
\* device is bound, changes no field of the Session and emits nothing.
C6_DetachOther ==
  [][(last'.op = "detach" /\ last'.arg # self.device)
       => /\ self' = self
          /\ last'.ev = <<>>
          /\ last'.cb = <<>>]_vars

\* C6 witness: a detach event of another device arrived while the Session was
\* Open on its own device
C6_Witness ==
  /\ last.op = "detach" /\ last.arg # self.device /\ last.ev = <<>>
  /\ self.isOpen /\ self.device # NoDevice

\* the recorded endpoints form a pair of one interface of one device
PairOfOneInterface(s) ==
  /\ s.endpoint.dir = "out" /\ s.deviceToPcEndpoint.dir = "in"
  /\ s.endpoint.iface = s.deviceToPcEndpoint.iface
  /\ s.endpoint.dev = s.deviceToPcEndpoint.dev
  /\ InterfacesOf(s.endpoint.dev)[s.endpoint.iface][s.endpoint.idx] = "out"
  /\ InterfacesOf(s.endpoint.dev)[s.endpoint.iface][s.deviceToPcEndpoint.idx] = "in"

\* no interface of the device offers both directions
NoPairLayout ==
  \A i \in 1..Len(layout) : FirstEp(layout[i], "out") = 0 \/ FirstEp(layout[i], "in") = 0

\* C7 (as claimed): in every reachable state the OUT and the IN endpoint are
\* both unset, or both set and of the same interface; the Session is marked
\* open exactly when the pair is set; and on a device none of whose interfaces
\* offers both directions no endpoint is ever recorded and no ready
\* notification reports success.
C7_PairAllOrNothing ==
  /\ (self.endpoint = NoEndpoint) <=> (self.deviceToPcEndpoint = NoEndpoint)
  /\ self.endpoint # NoEndpoint => PairOfOneInterface(self)
  /\ self.isOpen <=> (self.endpoint # NoEndpoint)
  /\ NoPairLayout => /\ self.endpoint = NoEndpoint
                     /\ (last.op = "ifaceReady" => last.cb # <<"ok">>)

\* C8 (as claimed): whenever an open call's callback reports a failure, from
\* open itself or from one of its ready notifications, the Session is Closed.
C8_FailedOpenLeavesClosed ==
  (/\ last.op \in {"open", "ifaceReady"}
   /\ \E k \in 1..Len(last.cb) : last.cb[k] \in OpenFailures)
    => Closed(self)

\* C9 (as claimed): the callback of an open call is never invoked a second
\* time, and once every ready notification of the call has been delivered it
\* has been invoked.
C9_OpenCallbackOnce ==
  /\ \A call \in BagToSet(calls) : call.cbs <= 1
  /\ last.done \subseteq {1}

C11_CloseClearsAll ==
  [][(last'.op = "close" /\ ~self.isClosing)
       => /\ Closed(self')
          /\ ~self'.readInFlight
          /\ ~self'.isClosing]_vars

\* C12: while a reset is in progress (the resetting flag is set exactly while
\* the native reset has not completed), every read, write and open call is
\* rejected with Busy, makes no native call, emits no notification and changes
\* no field of the Session; and no step submits a transfer while a reset is in
\* progress.
C12_BusyWhileResetting ==
  /\ [](self.isResetting <=> resetPending)
  /\ [][(last'.op \in {"read", "write", "open"} /\ self.isResetting)
          => /\ last'.cb = <<"Busy">>
             /\ last'.native = <<>>
             /\ last'.ev = <<>>
             /\ self' = self
             /\ calls' = calls]_vars
  /\ [][resetPending => (inTransfers' <= inTransfers /\ outTransfers' <= outTransfers)]_vars

\* C12 witness: a write was rejected with Busy on a Session with its endpoint
\* pair recorded while the native reset is outstanding
C12_Witness ==
  /\ last.op = "write" /\ last.cb = <<"Busy">>
  /\ self.isResetting /\ resetPending /\ self.endpoint # NoEndpoint

\* C13: a write that passes its guards emits data once, carrying the payload,
\* and then hands the same payload to the OUT endpoint's transfer, once; a
\* transfer that completes with an error emits error and invokes the callback
\* with the error, and no transfer is submitted in its place; a write rejected
\* with Busy or NotReady emits nothing and submits nothing.
C13_WriteDataThenTransfer ==
  /\ [][(last'.op = "write" /\ ~self.isResetting /\ ~self.isClosing /\ self.endpoint # NoEndpoint)
          => /\ \E d \in Payloads :
                last'.steps = <<[kind |-> "emit", what |-> "data", data |-> d],
                                [kind |-> "native", what |-> "transferOut", data |-> d]>>
             /\ last'.ev = <<"data">>
             /\ last'.native = <<"transferOut">>
             /\ last'.cb \in {<<>>, <<"TransportError">>}
             /\ outTransfers' = IF last'.cb = <<>> THEN outTransfers + 1 ELSE outTransfers]_vars
  /\ [][(last'.op = "write" /\ (self.isResetting \/ self.isClosing \/ self.endpoint = NoEndpoint))
          => /\ last'.cb \in {<<"Busy">>, <<"NotReady">>}
             /\ last'.steps = <<>> /\ last'.ev = <<>> /\ last'.native = <<>>
             /\ outTransfers' = outTransfers]_vars
  /\ [][last'.op = "writeDone"
          => /\ outTransfers' = outTransfers - 1
             /\ last'.native = <<>>
             /\ \/ last'.cb = <<"TransportError">> /\ last'.ev = <<"error">>
                \/ last'.cb = <<"ok">> /\ last'.ev = <<>>]_vars

\* C13 witness: a write passed its guards on an Open Session: it emitted data
\* and its transfer is outstanding
C13_Witness ==
  /\ last.op = "write" /\ Len(last.steps) = 2 /\ last.cb = <<>>
  /\ self.isOpen /\ outTransfers = 1

\* C14 (as claimed): destroy removes the Session's two hot-plug handlers when
\* they are registered and nothing when they are not (a second destroy), so
\* the handlers are registered exactly until the first destroy; in every state
\* after destroy the Session holds no device and no endpoint; and no attach or
\* detach event reaches a destroyed Session.
C14_DestroyTerminal ==
  /\ [][last'.op = "destroy"
          => /\ ~subscribed'
             /\ Count(last'.native, "removeListener") = (IF subscribed THEN 2 ELSE 0)
             /\ self'.device = NoDevice
             /\ self'.endpoint = NoEndpoint /\ self'.deviceToPcEndpoint = NoEndpoint]_vars
  /\ [][~subscribed => (~subscribed' /\ last'.op \notin {"attach", "detach"})]_vars
  /\ [](~subscribed => /\ self.device = NoDevice
                       /\ self.endpoint = NoEndpoint /\ self.deviceToPcEndpoint = NoEndpoint)

\* C15 (as claimed): every close call that is not short-circuited by the
\* already-closing guard emits close exactly once, with the Session state
\* already cleared, whether or not it called the native close; a close call
\* short-circuited by the guard emits nothing.
C15_CloseEmitsOnce ==
  /\ [][(last'.op = "close" /\ ~self.isClosing)
          => /\ last'.ev = <<"close">>
             /\ Closed(self') /\ ~self'.isClosing]_vars
  /\ [][(last'.op = "close" /\ self.isClosing) => last'.ev = <<>>]_vars

\* C16: an attach event changes no field of the Session but the device
\* reference, which it changes only when no device is bound, to the first
\* candidate of the Locator pass (none: it stays unbound); it invokes no
\* callback and makes no native call; and it emits attach exactly when the
\* event's device is the device bound after that step.
C16_AttachNeverOpens ==
  [][\A d \in Devices, found \in {NoDevice} \cup Printers :
       Attach(d, found)
         => /\ self' = [self EXCEPT !.device = IF self.device = NoDevice THEN found ELSE @]
            /\ last'.ev = (IF d = self'.device THEN <<"attach">> ELSE <<>>)
            /\ last'.cb = <<>>
            /\ last'.native = <<>>
            /\ calls' = calls]_vars

\* C16 witness: an attach event rebound a Session that lost its device while
\* a read was in flight; it announced the device and the Session is not open
C16_Witness ==
  /\ last.op = "attach" /\ last.ev = <<"attach">>
  /\ self.device # NoDevice /\ self.readInFlight /\ Closed(self)

\* C17 (as claimed): a reset call issued in any state of a Session (not
\* destroyed) while a reset is in progress invokes its callback with no error,
\* makes no native call and changes no field of the Session; and a reset call
\* reaches the native reset only when none is in progress.
C17_ResetIdempotentAnyState ==
  /\ [][(last'.op = "reset" /\ subscribed /\ self.isResetting)
          => /\ last'.cb = <<"ok">>
             /\ last'.native = <<>>
             /\ self' = self
             /\ resetPending' = resetPending]_vars
  /\ [][(last'.op = "reset" /\ last'.native # <<>>)
          => /\ ~resetPending /\ ~self.isResetting
             /\ last'.native = <<"reset">>]_vars

\* C17 (amended): a reset call issued while a reset is in progress makes no
\* native call and changes no field of the Session; its callback is invoked
\* with no error when a device is bound, and with NoDeviceBound when the
\* device was detached since the reset started; and a reset call reaches the
\* native reset only when none is in progress, once.
C17_ResetIdempotentWhileBound ==
  /\ [][(last'.op = "reset" /\ self.isResetting)
          => /\ last'.cb = (IF self.device = NoDevice THEN <<"NoDeviceBound">> ELSE <<"ok">>)
             /\ last'.native = <<>>
             /\ last'.ev = <<>>
             /\ self' = self
             /\ resetPending' = resetPending]_vars
  /\ [][(last'.op = "reset" /\ last'.native # <<>>)
          => /\ ~resetPending /\ ~self.isResetting
             /\ last'.native = <<"reset">>]_vars

\* C17 witness: a second reset call succeeded at once on an Open Session whose
\* native reset is outstanding
C17_Witness ==
  /\ last.op = "reset" /\ last.cb = <<"ok">> /\ last.native = <<>>
  /\ self.isResetting /\ resetPending /\ self.isOpen

\* the operation was not stopped by a guard: it reached the transport
PastGuards(l) == l.native # <<>>

\* C18: when the callback of a read that passed its guards is invoked, from
\* the transfer's completion or because the transfer call raised, the
\* in-flight-read flag is already false, so a read issued from inside it is
\* not rejected with ReadInProgress; when the callback of a reset that passed
\* its guards is invoked, from the native completion or because the native
\* call raised, the resetting and in-flight-read flags are already false, so a
\* reset issued from inside it is not short-circuited by the already-resetting
\* guard; and when the callback of a close call not short-circuited by the
\* guard is invoked, the closing flag is already false, so a close issued
\* from inside it is not short-circuited either.
C18_FlagsClearedBeforeCallback ==
  /\ []((\/ last.op = "readDone"
         \/ (last.op = "read" /\ PastGuards(last) /\ last.cb # <<>>))
          => /\ ~last.at.readInFlight
             /\ \A x \in BOOLEAN : read(last.at, x).r.cb # <<"ReadInProgress">>)
  /\ []((\/ last.op = "resetDone"
         \/ (last.op = "reset" /\ PastGuards(last) /\ last.cb # <<>>))
          => /\ ~last.at.isResetting /\ ~last.at.readInFlight
             /\ \A x \in BOOLEAN :
                  \/ last.at.device = NoDevice
                  \/ reset(last.at, x).r.native = <<"reset">>)
  /\ [][(last'.op \in {"close", "close2"} /\ ~self.isClosing)
          => /\ ~last'.at.isClosing
             /\ Len(last'.cb) >= 1]_vars

\* C18 witness: a reset of an Open Session with a read in flight completed:
\* its callback saw both flags false while the read's transfer is outstanding
C18_Witness ==
  /\ last.op = "resetDone" /\ last.cb # <<>>
  /\ ~last.at.isResetting /\ ~last.at.readInFlight
  /\ inTransfers = 1

\* the last step made the Session Closed: a close call, a reset completion or
\* a detach event of the bound device
ClosedByLastStep ==
  \/ last.op \in {"close", "close2", "resetDone"}
  \/ (last.op = "detach" /\ last.ev # <<>>)

\* C19 (as claimed): a ready notification delivered right after a close call,
\* a reset completion or a detach of the bound device, which is pending from
\* an open call made before that step, does not re-open the Session: the
\* Session stays Closed and connect is not emitted.
C19_NoReopenByStaleReady ==
  [][(ClosedByLastStep /\ last'.op = "ifaceReady")
       => /\ Closed(self')
          /\ last'.ev = <<>>]_vars

\* C20 (as claimed): in every reachable state a Session whose open flag is set
\* or which has an endpoint recorded has a bound device, and connect is never
\* emitted while no device is bound.
C20_OpenImpliesDevice ==
  /\ ~Closed(self) => self.device # NoDevice
  /\ Count(last.ev, "connect") > 0 => last.at.device # NoDevice
====
